---------------------------- MODULE Spec2Model ----------------------------
(***************************************************************************)
(* State-machine model of MeshWrapper::getProcessedMeshData                *)
(* (src/src/wasm/bindings_common.cc): material deduplication, triangle     *)
(* collection, sort by material and vertex welding.                        *)
(*                                                                         *)
(* Sequences in the source are 0-based; the model keeps 0-based indices in *)
(* its values and reads sequences through At and Read (s[i + 1]).          *)
(***************************************************************************)
EXTENDS Integers, Sequences, FiniteSets, TLC

(* ----------------------------- bounds ---------------------------------- *)

\* Largest number of triangles (entries of material_indices) of an input mesh.
MaxTri == 2

\* Largest material table explored by the material-rich inputs (InitDedup).
MaxMat == 3

(* --------------------------- generic helpers --------------------------- *)

\* 0-based read s[i] inside a pure helper. A read past the end is undefined
\* in the C++; the helpers report it (their oob field, collected in oobRead)
\* and continue with the stand-in value garbage.
At(s, i, garbage) == IF i >= 0 /\ i < Len(s) THEN s[i + 1] ELSE garbage

\* What an undefined read of a uint32_t may yield.
GarbageU32 == {0, 1, 65536}

\* 0-based read s[i] inside an action: the value read, or any garbage when
\* the index is past the end.
Read(s, i, garbage) == IF i >= 0 /\ i < Len(s) THEN {s[i + 1]} ELSE garbage

\* The set of 0-based indices of a sequence.
Idx(s) == 0 .. (Len(s) - 1)

\* Sequences over S of length 0 .. n.
SeqUpTo(S, n) == UNION {[1 .. k -> S] : k \in 0 .. n}

(* ----------------------------- materials ------------------------------- *)

\* The fields isVisuallySame compares (lines 94-118), in source order.
ComparedFields ==
    {"group", "color_r", "color_g", "color_b", "color_a", "smooth_angle",
     "texture", "texture_scale_x", "texture_scale_y", "texture_anim_fps",
     "texture_anim_map_mode", "texture_anim_map_dir_x",
     "texture_anim_map_dir_y", "detail_object", "detail_object_scale",
     "force_occluder", "environment_mapping",
     "environment_mapping_strength", "wave_mode", "wave_speed",
     "wave_max_amplitude", "wave_grid_size", "ignore_sun",
     "default_mapping_x", "default_mapping_y"}

\* Every field of a material record the packer touches: the compared ones
\* and the name, which only MaterialData copies.
MaterialFields == ComparedFields \cup {"name"}

\* A reference material.
MatBase ==
    [name |-> "STONE", group |-> 1,
     color_r |-> 10, color_g |-> 20, color_b |-> 30, color_a |-> 255,
     smooth_angle |-> 60, texture |-> "STONE.TGA",
     texture_scale_x |-> 1, texture_scale_y |-> 1,
     texture_anim_fps |-> 0, texture_anim_map_mode |-> 0,
     texture_anim_map_dir_x |-> 0, texture_anim_map_dir_y |-> 0,
     detail_object |-> "", detail_object_scale |-> 1,
     force_occluder |-> FALSE, environment_mapping |-> FALSE,
     environment_mapping_strength |-> 1,
     wave_mode |-> 0, wave_speed |-> 0, wave_max_amplitude |-> 0,
     wave_grid_size |-> 100, ignore_sun |-> FALSE,
     default_mapping_x |-> 2, default_mapping_y |-> 2]

\* A material that differs from MatBase in every field.
MatAlt ==
    [name |-> "WATER", group |-> 5,
     color_r |-> 11, color_g |-> 21, color_b |-> 31, color_a |-> 128,
     smooth_angle |-> 45, texture |-> "WATER.TGA",
     texture_scale_x |-> 2, texture_scale_y |-> 3,
     texture_anim_fps |-> 8, texture_anim_map_mode |-> 1,
     texture_anim_map_dir_x |-> 1, texture_anim_map_dir_y |-> 1,
     detail_object |-> "DETAIL.TGA", detail_object_scale |-> 4,
     force_occluder |-> TRUE, environment_mapping |-> TRUE,
     environment_mapping_strength |-> 5,
     wave_mode |-> 1, wave_speed |-> 2, wave_max_amplitude |-> 30,
     wave_grid_size |-> 200, ignore_sun |-> TRUE,
     default_mapping_x |-> 3, default_mapping_y |-> 4]

\* MatBase with the single field f taken from MatAlt.
Vary(f) == [MatBase EXCEPT ![f] = MatAlt[f]]

\* Mutant of isVisuallySame: the texture comparison (line 100) is missing.
isVisuallySame_NoTexture(a, b) ==
    /\ a.group                        = b.group
    /\ a.color_r                      = b.color_r
    /\ a.color_g                      = b.color_g
    /\ a.color_b                      = b.color_b
    /\ a.color_a                      = b.color_a
    /\ a.smooth_angle                 = b.smooth_angle
    /\ a.texture_scale_x              = b.texture_scale_x
    /\ a.texture_scale_y              = b.texture_scale_y
    /\ a.texture_anim_fps             = b.texture_anim_fps
    /\ a.texture_anim_map_mode        = b.texture_anim_map_mode
    /\ a.texture_anim_map_dir_x       = b.texture_anim_map_dir_x
    /\ a.texture_anim_map_dir_y       = b.texture_anim_map_dir_y
    /\ a.detail_object                = b.detail_object
    /\ a.detail_object_scale          = b.detail_object_scale
    /\ a.force_occluder               = b.force_occluder
    /\ a.environment_mapping          = b.environment_mapping
    /\ a.environment_mapping_strength = b.environment_mapping_strength
    /\ a.wave_mode                    = b.wave_mode
    /\ a.wave_speed                   = b.wave_speed
    /\ a.wave_max_amplitude           = b.wave_max_amplitude
    /\ a.wave_grid_size               = b.wave_grid_size
    /\ a.ignore_sun                   = b.ignore_sun
    /\ a.default_mapping_x            = b.default_mapping_x
    /\ a.default_mapping_y            = b.default_mapping_y

\* Mutant of isVisuallySame: the last comparison (line 118) is missing.
isVisuallySame_NoMappingY(a, b) ==
    \A f \in ComparedFields \ {"default_mapping_y"} : a[f] = b[f]

\* MeshWrapper::isVisuallySame: equality of the 25 compared fields; the
\* name is not among them.
isVisuallySame(a, b) ==
    /\ a.group                        = b.group
    /\ a.color_r                      = b.color_r
    /\ a.color_g                      = b.color_g
    /\ a.color_b                      = b.color_b
    /\ a.color_a                      = b.color_a
    /\ a.smooth_angle                 = b.smooth_angle
    /\ a.texture                      = b.texture
    /\ a.texture_scale_x              = b.texture_scale_x
    /\ a.texture_scale_y              = b.texture_scale_y
    /\ a.texture_anim_fps             = b.texture_anim_fps
    /\ a.texture_anim_map_mode        = b.texture_anim_map_mode
    /\ a.texture_anim_map_dir_x       = b.texture_anim_map_dir_x
    /\ a.texture_anim_map_dir_y       = b.texture_anim_map_dir_y
    /\ a.detail_object                = b.detail_object
    /\ a.detail_object_scale          = b.detail_object_scale
    /\ a.force_occluder               = b.force_occluder
    /\ a.environment_mapping          = b.environment_mapping
    /\ a.environment_mapping_strength = b.environment_mapping_strength
    /\ a.wave_mode                    = b.wave_mode
    /\ a.wave_speed                   = b.wave_speed
    /\ a.wave_max_amplitude           = b.wave_max_amplitude
    /\ a.wave_grid_size               = b.wave_grid_size
    /\ a.ignore_sun                   = b.ignore_sun
    /\ a.default_mapping_x            = b.default_mapping_x
    /\ a.default_mapping_y            = b.default_mapping_y

\* MaterialData's converting constructor: name, group narrowed to uint8_t,
\* texture.
MaterialData(material) ==
    [name |-> material.name,
     group |-> material.group % 256,
     texture |-> material.texture]

(* ------------------------- material deduplication ---------------------- *)

\* The similarity of every pair of table entries, as isVisuallySame decides
\* it when the merge pass asks (lines 149-151).
SimOf(materials) ==
    [p \in Idx(materials) \X Idx(materials) |->
        isVisuallySame(materials[p[1] + 1], materials[p[2] + 1])]

\* Lines 139-142: mat[i] = i.
IdentityMat(n) == [k \in 1 .. n |-> k - 1]

\* Mutant of MergeInner: r joins the material i itself, not the class of i.
RECURSIVE MergeInner_ToIndex(_, _, _, _)
MergeInner_ToIndex(sim, m, i, r) ==
    IF r >= Len(m) THEN m
    ELSE MergeInner_ToIndex(sim,
             IF m[i + 1] # m[r + 1] /\ sim[<<i, r>>]
             THEN [m EXCEPT ![r + 1] = i] ELSE m,
             i, r + 1)

\* Mutant of MergeInner: a material that has been merged once stays where
\* it is.
RECURSIVE MergeInner_FirstWins(_, _, _, _)
MergeInner_FirstWins(sim, m, i, r) ==
    IF r >= Len(m) THEN m
    ELSE MergeInner_FirstWins(sim,
             IF m[i + 1] # m[r + 1] /\ m[r + 1] = r /\ sim[<<i, r>>]
             THEN [m EXCEPT ![r + 1] = m[i + 1]] ELSE m,
             i, r + 1)

\* Mutant of MergeInner: only the neighbour r = i + 1 is compared.
RECURSIVE MergeInner_AdjacentOnly(_, _, _, _)
MergeInner_AdjacentOnly(sim, m, i, r) ==
    IF r >= Len(m) \/ r > i + 1 THEN m
    ELSE MergeInner_AdjacentOnly(sim,
             IF m[i + 1] # m[r + 1] /\ sim[<<i, r>>]
             THEN [m EXCEPT ![r + 1] = m[i + 1]] ELSE m,
             i, r + 1)

\* Lines 146-154: the inner loop, r = i+1 .. size-1, for a fixed i.
RECURSIVE MergeInner(_, _, _, _)
MergeInner(sim, m, i, r) ==
    IF r >= Len(m) THEN m
    ELSE MergeInner(sim,
             IF m[i + 1] # m[r + 1] /\ sim[<<i, r>>]
             THEN [m EXCEPT ![r + 1] = m[i + 1]] ELSE m,
             i, r + 1)

\* Lines 145-155: the outer loop, i = 0 .. size-1.
RECURSIVE MergeOuter(_, _, _)
MergeOuter(sim, m, i) ==
    IF i >= Len(m) THEN m
    ELSE MergeOuter(sim, MergeInner(sim, m, i, i + 1), i + 1)

\* Lines 139-155: the class table mat for a similarity relation over n
\* materials.
MergePass(sim, n) == MergeOuter(sim, IdentityMat(n), 0)

\* std::map<uint32_t, uint32_t>::operator[] as line 184 uses it: the value
\* stored under key, or a value-initialised 0 for a key that is absent.
MapGet(map, key) == IF key \in DOMAIN map THEN map[key] ELSE 0

\* Mutant of NewMaterialIndex: the class is remapped to itself.
NewMaterialIndex_Class(outMaterials, dedupIdx) == dedupIdx

\* Line 162: a new class gets the next index of result.materials.
NewMaterialIndex(outMaterials, dedupIdx) == Len(outMaterials)

\* Lines 158-166: the compaction walk. acc holds matIdxRemap, the output
\* materials and whether a read left the material table.
RECURSIVE CompactFrom(_, _, _, _)
CompactFrom(materials, m, i, acc) ==
    IF i >= Len(materials) THEN acc
    ELSE LET dedupIdx == At(m, i, 0)
         IN  IF dedupIdx \in DOMAIN acc.matIdxRemap
             THEN CompactFrom(materials, m, i + 1, acc)
             ELSE CompactFrom(materials, m, i + 1,
                    [matIdxRemap |-> (dedupIdx :> NewMaterialIndex(acc.materials, dedupIdx))
                                        @@ acc.matIdxRemap,
                     materials   |-> Append(acc.materials,
                                        MaterialData(At(materials, dedupIdx, MatBase))),
                     oob         |-> acc.oob \/ dedupIdx >= Len(materials)])

Compact(materials, m) ==
    CompactFrom(materials, m, 0,
        [matIdxRemap |-> << >>, materials |-> << >>, oob |-> FALSE])

(* ---------------------------- triangle list ---------------------------- *)

\* Mutant of MaterialInRange: the range check is missing.
MaterialInRange_Always(originalMatIdx, m) == TRUE

\* Line 182: originalMatIdx < mat.size().
MaterialInRange(originalMatIdx, m) == originalMatIdx < Len(m)

\* Lines 174-187: one Triangle per entry of material_indices whose material
\* index is inside mat; acc holds the triangles and whether a read left mid
\* or mat.
RECURSIVE CollectFrom(_, _, _, _, _)
CollectFrom(mid, m, remap, i, acc) ==
    IF i >= Len(mid) THEN acc
    ELSE LET originalMatIdx == At(mid, i, 0)
         IN  IF MaterialInRange(originalMatIdx, m)
             THEN CollectFrom(mid, m, remap, i + 1,
                    [triangles |-> Append(acc.triangles,
                                     [primId |-> i * 3,
                                      matId  |-> MapGet(remap, At(m, originalMatIdx, 0))]),
                     oob |-> acc.oob \/ i >= Len(mid) \/ originalMatIdx >= Len(m)])
             ELSE CollectFrom(mid, m, remap, i + 1, acc)

Collect(mid, m, remap) ==
    CollectFrom(mid, m, remap, 0, [triangles |-> << >>, oob |-> FALSE])

\* Mutant of SortOutcomes: the triangles stay in collection order.
SortOutcomes_Unsorted(tris) == {tris}

\* Lines 190-192: std::sort with the comparator a.matId < b.matId. The sort
\* is not stable, so every arrangement of the same triangles in which no
\* triangle precedes one of smaller matId is a possible outcome.
SortOutcomes(tris) ==
    {s \in [1 .. Len(tris) -> {tris[k] : k \in 1 .. Len(tris)}] :
        /\ \A a, b \in 1 .. Len(tris) : a # b => s[a] # s[b]
        /\ \A a, b \in 1 .. Len(tris) : a < b => ~(s[b].matId < s[a].matId)}

(* ------------------------------- welding ------------------------------- *)

\* Mutant of ShiftRight16: the low word is kept instead of the high word.
ShiftRight16_LowWord(fi) == fi % 65536

\* fi >> 16 on a uint32_t.
ShiftRight16(fi) == fi \div 65536

\* Mutant of ResolveCorner: the shift is applied to every feature index.
ResolveCorner_ShiftAlways(vi, fi, vertexCount, featureCount) ==
    LET fi1 == ShiftRight16(fi)
    IN  IF vi >= vertexCount \/ fi1 >= featureCount
        THEN <<0, 0>>
        ELSE <<vi, fi1>>

\* Mutant of ResolveCorner: the fallback zeroes only the index that is out
\* of range.
ResolveCorner_KeepInRange(vi, fi, vertexCount, featureCount) ==
    LET fi1 == IF fi >= featureCount THEN ShiftRight16(fi) ELSE fi
    IN  <<IF vi >= vertexCount THEN 0 ELSE vi,
          IF fi1 >= featureCount THEN 0 ELSE fi1>>

\* Lines 219-228: the legacy shift of the feature index, then the fallback of
\* both indices to 0.
ResolveCorner(vi, fi, vertexCount, featureCount) ==
    LET fi1 == IF fi >= featureCount THEN ShiftRight16(fi) ELSE fi
    IN  IF vi >= vertexCount \/ fi1 >= featureCount
        THEN <<0, 0>>
        ELSE <<vi, fi1>>

\* Bitwise or of two non-negative integers.
RECURSIVE BitOr(_, _)
BitOr(x, y) ==
    IF x = 0 THEN y
    ELSE IF y = 0 THEN x
    ELSE (IF x % 2 = 1 \/ y % 2 = 1 THEN 1 ELSE 0) + 2 * BitOr(x \div 2, y \div 2)

\* A 64-bit value is kept as its four 16-bit limbs, most significant first.
\* uint64_t(a) of a uint32_t a.
ToUInt64(a) == <<0, 0, a \div 65536, a % 65536>>

\* Mutant of ShiftLeft32: the shift is by 16 bits.
ShiftLeft32_By16(x) == <<x[2], x[3], x[4], 0>>

\* x << 32 on a uint64_t: the low two limbs move up, the high two are lost.
ShiftLeft32(x) == <<x[3], x[4], 0, 0>>

\* Lines 87-89: (uint64_t(a) << 32) | uint64_t(b).
mkUInt64(a, b) ==
    LET hi == ShiftLeft32(ToUInt64(a))
        lo == ToUInt64(b)
    IN  [k \in 1 .. 4 |-> BitOr(hi[k], lo[k])]

\* Mutant of CacheHit: the lookup never finds the key.
CacheHit_Never(map, key) == FALSE

\* Lines 234-235: vertexMap.find(key) != vertexMap.end().
CacheHit(map, key) == key \in DOMAIN map

\* Mutant of NewVertexIndex: the vertices are counted from 1.
NewVertexIndex_OneBased(outVertices) == Len(outVertices) \div 8 + 1

\* Mutant of NewVertexIndex: the float offset of the new vertex.
NewVertexIndex_FloatOffset(outVertices) == Len(outVertices)

\* Line 240: uint32_t(result.vertices.size() / 8).
NewVertexIndex(outVertices) == Len(outVertices) \div 8

\* Mutant of HasPosition: the write-time check is missing.
HasPosition_Always(vertices, vi) == TRUE

\* Line 245: vi < mesh_.vertices.size().
HasPosition(vertices, vi) == vi < Len(vertices)

\* Mutant of HasFeature: the write-time check is missing.
HasFeature_Always(features, fi) == TRUE

\* Line 256: fi < mesh_.features.size().
HasFeature(features, fi) == fi < Len(features)

\* What an undefined read of a position or of a feature may yield.
GarbageVertex == [x |-> 0, y |-> 0, z |-> 0]
GarbageFeature ==
    [texture |-> [x |-> 0, y |-> 0], light |-> 0,
     normal |-> [x |-> 0, y |-> 0, z |-> 0]]

\* Lines 245-254: the three position floats of a new vertex.
PositionFloats(vertices, vi) ==
    IF HasPosition(vertices, vi)
    THEN LET v == At(vertices, vi, GarbageVertex) IN <<v.x, v.y, v.z>>
    ELSE <<0, 0, 0>>

\* Mutant of FeatureFloats: the uv is written before the normal.
FeatureFloats_UvBeforeNormal(features, fi) ==
    IF HasFeature(features, fi)
    THEN LET f == At(features, fi, GarbageFeature)
         IN  <<f.texture.x, f.texture.y, f.normal.x, f.normal.y, f.normal.z>>
    ELSE <<0, 0, 0, 0, 1>>

\* Lines 256-269: the normal and uv floats of a new vertex.
FeatureFloats(features, fi) ==
    IF HasFeature(features, fi)
    THEN LET f == At(features, fi, GarbageFeature)
         IN  <<f.normal.x, f.normal.y, f.normal.z, f.texture.x, f.texture.y>>
    ELSE <<0, 0, 1, 0, 0>>

\* Lines 246 and 257: a new vertex reads past the end of a table.
TableReadPastEnd(vertices, features, vi, fi) ==
    \/ HasPosition(vertices, vi) /\ vi >= Len(vertices)
    \/ HasFeature(features, fi) /\ fi >= Len(features)

(* ------------------------------- state --------------------------------- *)

VARIABLES
    mesh_,        \* the zenkit::Mesh the wrapper refers to (the input)
    pc,           \* where getProcessedMeshData stands
    mat,          \* std::vector<uint32_t> mat: the class of every material
    matIdxRemap,  \* std::map: class -> index in result.materials
    triangles,    \* std::vector<Triangle>
    vertexMap,    \* std::unordered_map: composite key -> vertex index
    result,       \* the ProcessedMeshData under construction
    triPos,       \* position of the welding loop in triangles (0-based)
    c,            \* corner of the welding loop, 0 .. 2
    oobRead,      \* whether any read so far was past the end of its sequence
    stdSort       \* what the build's std::sort made of each triangle list so far

\* The state of a call of getProcessedMeshData.
packVars == <<mesh_, pc, mat, matIdxRemap, triangles, vertexMap, result,
              triPos, c, oobRead, stdSort>>

\* The caller of the wrapper: the results earlier calls have returned.
VARIABLES earlier

\* The corner resolution of lines 214-228 taken on its own: its arguments
\* and what it yields.
VARIABLES
    rawCorner,    \* vi, fi, vertexCount and featureCount of one corner
    resolved      \* the resolved <<vi, fi>>, or << >> before the resolution

resolveVars == <<rawCorner, resolved>>

\* The merge pass and the compaction of lines 139-166 taken on their own,
\* for a similarity relation that need not come from isVisuallySame.
VARIABLES
    mergeIn,      \* the materials and the answers of the similarity predicate
    mergeOut      \* mat, matIdxRemap and the output materials, or << >>

mergeVars == <<mergeIn, mergeOut>>

\* mkUInt64 (lines 87-89) taken on its own, for two pairs of indices.
VARIABLES
    keyIn,        \* two pairs <<a, b>> of uint32_t
    keyOut        \* the keys of the two pairs, or << >>

keyVars == <<keyIn, keyOut>>

\* The pure steps taken on their own.
pureVars == <<resolveVars, mergeVars, keyVars>>

\* A WorldWrapper (world_bindings.cc) and its caller.
VARIABLES
    world_,       \* zenkit::World world_, as far as the wrapper looks into it
    last_error_,  \* std::string last_error_
    returned,     \* the Result<bool> the last load call returned
    loads         \* the load calls made so far, and whether each succeeded

worldVars == <<world_, last_error_, returned, loads>>

\* What a call of getProcessedMeshData neither reads nor writes.
notPacker == <<pureVars, earlier, worldVars>>

vars == <<packVars, notPacker>>

\* The references of lines 125-127.
ibo  == mesh_.polygons.vertex_indices
feat == mesh_.polygons.feature_indices
mid  == mesh_.polygons.material_indices

\* Lines 198-199.
featureCount == Len(mesh_.features)
vertexCount  == Len(mesh_.vertices)

\* ProcessedMeshData(): four empty vectors.
EmptyResult ==
    [vertices |-> << >>, indices |-> << >>, materialIds |-> << >>,
     materials |-> << >>]

(* ------------------------------- inputs -------------------------------- *)

\* Positions an input mesh takes its vertices from (a prefix of this list).
PositionPool ==
    << [x |-> 10, y |-> 11, z |-> 12], [x |-> 20, y |-> 21, z |-> 22] >>

\* Features an input mesh takes its features from (a prefix of this list).
FeaturePool ==
    << [texture |-> [x |-> 3, y |-> 4], light |-> 7,
        normal |-> [x |-> 1, y |-> 0, z |-> 0]],
       [texture |-> [x |-> 5, y |-> 6], light |-> 8,
        normal |-> [x |-> 0, y |-> 1, z |-> 0]] >>

\* Sizes of the position and feature tables of an input mesh.
TableSizes == {0, Len(PositionPool)}

\* Material tables of the geometry-rich inputs: empty, one material, two
\* that differ in texture, a table whose first two entries differ in name
\* only, and a table whose first and last entries are alike.
MeshMaterialTables ==
    { << >>,
      << MatBase >>,
      << MatBase, Vary("texture") >>,
      << MatBase, Vary("name"), Vary("texture") >>,
      << Vary("texture"), MatBase, Vary("texture") >> }

\* A corner stream whose <<vertex index, feature index>> pairs are all in
\* range of two positions and two features.
PlainPattern == << <<0, 0>>, <<1, 1>>, <<0, 1>>, <<1, 0>> >>

\* A corner stream with, for two positions and two features: a feature
\* index with a stale high word (65538 -> 1), one that is one past the end
\* (2 -> 0), a vertex index one past the end, and a feature index that is
\* past the end after the shift as well (131074 -> 2).
LegacyPattern ==
    << <<1, 65538>>, <<0, 2>>, <<1, 1>>, <<2, 1>>, <<1, 131074>>, <<0, 0>>,
       <<1, 2>> >>

\* Corner streams of the inputs: a pattern repeated as often as the stream
\* is long.
CornerPatterns == {PlainPattern, LegacyPattern}

\* The first n corners of a pattern, component k (1: vertex, 2: feature).
Stream(pattern, k, n) ==
    [j \in 1 .. n |-> pattern[((j - 1) % Len(pattern)) + 1][k]]

\* Lengths of the vertex-index stream tried with t triangles: exact, one or
\* three corners short, one corner long, empty.
StreamLengths(t) == {n \in {0, 3 * t - 3, 3 * t - 1, 3 * t, 3 * t + 1} : n >= 0}

Mesh(vertices, features, vertex_indices, feature_indices, material_indices, materials) ==
    [vertices |-> vertices, features |-> features,
     polygons |-> [vertex_indices   |-> vertex_indices,
                   feature_indices  |-> feature_indices,
                   material_indices |-> material_indices],
     materials |-> materials]

\* The locals of a call that has not started.
Start ==
    /\ pc = "start"
    /\ mat = << >>
    /\ matIdxRemap = << >>
    /\ triangles = << >>
    /\ vertexMap = << >>
    /\ result = EmptyResult
    /\ triPos = 0
    /\ c = 0
    /\ oobRead = FALSE

\* No call has returned yet, and std::sort has not run.
FirstCall ==
    /\ earlier = {}
    /\ stdSort = << >>

\* Result<bool>(): success is false, the message empty.
DefaultResult == [data |-> FALSE, error_message |-> "", success |-> FALSE]

\* A default-constructed zenkit::World: its mesh has no vertices.
DefaultWorld == [world_mesh |-> [vertices |-> << >>]]

\* WorldWrapper(): a default world, no error, and nothing loaded yet.
NewWorld ==
    /\ world_ = DefaultWorld
    /\ last_error_ = ""
    /\ returned = DefaultResult
    /\ loads = << >>

\* No corner is resolved on its own.
NoCorner ==
    /\ rawCorner = << >>
    /\ resolved = << >>

\* No merge pass and no key is computed on its own.
NoMerge ==
    /\ mergeIn = << >>
    /\ mergeOut = << >>

NoKey ==
    /\ keyIn = << >>
    /\ keyOut = << >>

\* Geometry-rich inputs.
Init ==
    /\ \E materials \in MeshMaterialTables, t \in 0 .. MaxTri,
          pattern \in CornerPatterns, nv \in TableSizes, nf \in TableSizes :
         \E material_indices \in [1 .. t -> 0 .. Len(materials)],
            li \in StreamLengths(t) :
           \E lf \in {li, li + 1} :
             mesh_ = Mesh(SubSeq(PositionPool, 1, nv), SubSeq(FeaturePool, 1, nf),
                          Stream(pattern, 1, li), Stream(pattern, 2, lf),
                          material_indices, materials)
    /\ Start
    /\ FirstCall
    /\ NoCorner
    /\ NewWorld
    /\ NoMerge
    /\ NoKey

\* Material tables of the material-rich inputs: every table of up to MaxMat
\* entries over the reference material, a variant in one field f and a
\* variant in the texture.
DedupTables ==
    UNION {SeqUpTo({MatBase, Vary(f), Vary("texture")}, MaxMat) :
              f \in MaterialFields}

\* Material-rich inputs: one triangle, of the last material of the table,
\* with corner streams that are exact, one corner short, or of different
\* lengths.
InitDedup ==
    /\ \E materials \in DedupTables, li \in {2, 3} :
         \E lf \in {li, li + 1} :
           mesh_ = Mesh(PositionPool, FeaturePool,
                        Stream(PlainPattern, 1, li), Stream(PlainPattern, 2, lf),
                        <<IF materials = << >> THEN 0 ELSE Len(materials) - 1>>,
                        materials)
    /\ Start
    /\ FirstCall
    /\ NoCorner
    /\ NewWorld
    /\ NoMerge
    /\ NoKey

(* ------------------------------- actions ------------------------------- *)

\* Mutant of IsEmptyMesh: only the material table is checked.
IsEmptyMesh_MaterialsOnly == mesh_.materials = << >>

\* Line 129: ibo.empty() || mesh_.materials.empty().
IsEmptyMesh == ibo = << >> \/ mesh_.materials = << >>

\* Lines 129-131: no corner indices or no materials: the empty result.
EmptyMesh ==
    /\ pc = "start"
    /\ IsEmptyMesh
    /\ pc' = "done"
    /\ UNCHANGED <<mesh_, mat, matIdxRemap, triangles, vertexMap, result,
                   triPos, c, oobRead>>
    /\ UNCHANGED <<stdSort, notPacker>>

\* Mutant of SameStreamLengths: a longer attribute stream is accepted.
SameStreamLengths_FeatLonger == Len(ibo) <= Len(feat)

\* Line 134: ibo.size() != feat.size(), negated.
SameStreamLengths == Len(ibo) = Len(feat)

\* Lines 134-136: index streams of different lengths: the empty result.
IncompatibleIndices ==
    /\ pc = "start"
    /\ ~IsEmptyMesh
    /\ ~SameStreamLengths
    /\ pc' = "done"
    /\ UNCHANGED <<mesh_, mat, matIdxRemap, triangles, vertexMap, result,
                   triPos, c, oobRead>>
    /\ UNCHANGED <<stdSort, notPacker>>

\* Lines 139-155: the class table.
MergeMaterials ==
    /\ pc = "start"
    /\ ~IsEmptyMesh
    /\ SameStreamLengths
    /\ mat' = MergePass(SimOf(mesh_.materials), Len(mesh_.materials))
    /\ pc' = "compact"
    /\ UNCHANGED <<mesh_, matIdxRemap, triangles, vertexMap, result, triPos,
                   c, oobRead>>
    /\ UNCHANGED <<stdSort, notPacker>>

\* Lines 158-166: matIdxRemap and result.materials.
BuildMaterials ==
    /\ pc = "compact"
    /\ LET r == Compact(mesh_.materials, mat)
       IN  /\ matIdxRemap' = r.matIdxRemap
           /\ result' = [result EXCEPT !.materials = r.materials]
           /\ oobRead' = (oobRead \/ r.oob)
    /\ pc' = "collect"
    /\ UNCHANGED <<mesh_, mat, triangles, vertexMap, triPos, c>>
    /\ UNCHANGED <<stdSort, notPacker>>

\* Lines 174-187: the triangle list.
CollectTriangles ==
    /\ pc = "collect"
    /\ LET r == Collect(mid, mat, matIdxRemap)
       IN  /\ triangles' = r.triangles
           /\ oobRead' = (oobRead \/ r.oob)
    /\ pc' = "sort"
    /\ UNCHANGED <<mesh_, mat, matIdxRemap, vertexMap, result, triPos, c>>
    /\ UNCHANGED <<stdSort, notPacker>>

\* Lines 190-192: the sort by material. std::sort is a function of the
\* list it is given: which of the possible arrangements it yields is left to
\* the build, and the same build yields the same arrangement for the same
\* list.
SortTriangles ==
    /\ pc = "sort"
    /\ IF triangles \in DOMAIN stdSort
       THEN /\ triangles' = stdSort[triangles]
            /\ UNCHANGED stdSort
       ELSE /\ triangles' \in SortOutcomes(triangles)
            /\ stdSort' = (triangles :> triangles') @@ stdSort
    /\ pc' = "weld"
    /\ UNCHANGED <<mesh_, mat, matIdxRemap, vertexMap, result, triPos, c,
                   oobRead>>
    /\ UNCHANGED notPacker

\* The triangle the welding loop stands at (line 205).
tri == triangles[triPos + 1]

\* Line 206: the material id is pushed once per triangle, before corner 0.
MaterialIdsAtCorner ==
    IF c = 0 THEN Append(result.materialIds, tri.matId) ELSE result.materialIds

\* Mutant of CornerPastEnd: the check takes the triangle's position in the
\* sorted list for its place in the streams.
CornerPastEnd_ByPosition(primId, corner, size) == 3 * triPos + corner >= size

\* Mutant of CornerPastEnd: a triangle that does not fit into the stream
\* loses all of its corners.
CornerPastEnd_WholeTriangle(primId, corner, size) == primId + 2 >= size

\* Mutant of CornerPastEnd: only the triangle's first corner is checked.
CornerPastEnd_BaseOnly(primId, corner, size) == primId >= size

\* Line 210: the corner lies past the end of the vertex-index stream.
CornerPastEnd(primId, corner, size) == primId + corner >= size

\* Mutant of NextCorner: the loop never leaves its triangle.
NextCorner_SameTriangle ==
    /\ c' = (IF c = 2 THEN 0 ELSE c + 1)
    /\ triPos' = triPos

\* Line 208: ++c, and the next triangle after corner 2.
NextCorner ==
    /\ c' = (IF c = 2 THEN 0 ELSE c + 1)
    /\ triPos' = (IF c = 2 THEN triPos + 1 ELSE triPos)

\* Lines 206-212: a corner past the end of the stream is skipped.
SkipCorner ==
    /\ pc = "weld"
    /\ triPos < Len(triangles)
    /\ CornerPastEnd(tri.primId, c, Len(ibo))
    /\ result' = [result EXCEPT !.materialIds = MaterialIdsAtCorner]
    /\ NextCorner
    /\ UNCHANGED <<mesh_, pc, mat, matIdxRemap, triangles, vertexMap, oobRead>>
    /\ UNCHANGED <<stdSort, notPacker>>

\* Mutant of MeshAfterResolve: vi and fi are references into the streams,
\* so the shift and the fallback write the resolved pair into the mesh.
MeshAfterResolve_ByReference(m, offset, vi, fi) ==
    [m EXCEPT !.polygons.vertex_indices[offset + 1] = vi,
              !.polygons.feature_indices[offset + 1] = fi]

\* Lines 214-215: vi and fi are copies of the stream entries, so the
\* assignments of lines 220, 226 and 227 leave the mesh as it is.
MeshAfterResolve(m, offset, vi, fi) == m

\* Lines 206-270: a corner is resolved and welded.
WeldCorner ==
    /\ pc = "weld"
    /\ triPos < Len(triangles)
    /\ ~CornerPastEnd(tri.primId, c, Len(ibo))
    /\ \E vi \in Read(ibo, tri.primId + c, GarbageU32),
          fi \in Read(feat, tri.primId + c, GarbageU32) :
         LET rc     == ResolveCorner(vi, fi, vertexCount, featureCount)
             key    == mkUInt64(rc[1], rc[2])
             newIdx == NewVertexIndex(result.vertices)
         IN  /\ IF CacheHit(vertexMap, key)
                THEN /\ result' = [result EXCEPT
                                     !.materialIds = MaterialIdsAtCorner,
                                     !.indices = Append(@, vertexMap[key])]
                     /\ UNCHANGED vertexMap
                ELSE /\ vertexMap' = (key :> newIdx) @@ vertexMap
                     /\ result' = [result EXCEPT
                                     !.materialIds = MaterialIdsAtCorner,
                                     !.indices = Append(@, newIdx),
                                     !.vertices = @ \o PositionFloats(mesh_.vertices, rc[1])
                                                    \o FeatureFloats(mesh_.features, rc[2])]
             /\ mesh_' = MeshAfterResolve(mesh_, tri.primId + c, rc[1], rc[2])
             /\ oobRead' = (\/ oobRead
                            \/ tri.primId + c >= Len(ibo)
                            \/ tri.primId + c >= Len(feat)
                            \/ /\ ~CacheHit(vertexMap, key)
                               /\ TableReadPastEnd(mesh_.vertices, mesh_.features,
                                                   rc[1], rc[2]))
    /\ NextCorner
    /\ UNCHANGED <<pc, mat, matIdxRemap, triangles>>
    /\ UNCHANGED <<stdSort, notPacker>>

\* Line 274: the loop over the triangles is over.
Return ==
    /\ pc = "weld"
    /\ triPos >= Len(triangles)
    /\ pc' = "done"
    /\ UNCHANGED <<mesh_, mat, matIdxRemap, triangles, vertexMap, result,
                   triPos, c, oobRead>>
    /\ UNCHANGED <<stdSort, notPacker>>

Next ==
    \/ EmptyMesh
    \/ IncompatibleIndices
    \/ MergeMaterials
    \/ BuildMaterials
    \/ CollectTriangles
    \/ SortTriangles
    \/ SkipCorner
    \/ WeldCorner
    \/ Return

\* getProcessedMeshData on the geometry-rich inputs.
Spec == Init /\ [][Next]_vars

\* getProcessedMeshData on the material-rich inputs.
SpecDedup == InitDedup /\ [][Next]_vars

\* One call that is never suspended for good: the call is a straight run
\* of one thread, with no blocking operation and nothing to wait for.
SpecLive == Init /\ [][Next]_vars /\ WF_vars(Next)

(* ----------------------------- repeated calls -------------------------- *)

\* Mutant of LocalVertexMap: the map outlives the call, like a static.
LocalVertexMap_Static(previous) == previous

\* Line 195: vertexMap is a local, constructed empty by every call.
LocalVertexMap(previous) == << >>

\* The caller keeps the result of the call that has returned and calls
\* getProcessedMeshData of the same wrapper again: mesh_ is the same, and
\* every local and the result are constructed anew (lines 123-195).
CallAgain ==
    /\ pc = "done"
    /\ earlier' = earlier \cup {result}
    /\ pc' = "start"
    /\ mat' = << >>
    /\ matIdxRemap' = << >>
    /\ triangles' = << >>
    /\ vertexMap' = LocalVertexMap(vertexMap)
    /\ result' = EmptyResult
    /\ triPos' = 0
    /\ c' = 0
    /\ oobRead' = FALSE
    /\ UNCHANGED <<mesh_, stdSort, pureVars, worldVars>>

\* Inputs of the repeated calls: the geometry-rich inputs with both tables
\* full.
InitRepeat ==
    /\ Init
    /\ vertexCount = Len(PositionPool)
    /\ featureCount = Len(FeaturePool)

NextRepeat ==
    \/ Next
    \/ CallAgain

\* getProcessedMeshData called again and again on one mesh.
SpecRepeat == InitRepeat /\ [][NextRepeat]_vars

(* ------------------------- calls of another build ----------------------- *)

\* The caller keeps the result of the call that has returned and makes the
\* same call with another build of the library, whose std::sort is free to
\* arrange equal material ids in another way (lines 190-192); every local
\* and the result are constructed anew.
CallOtherBuild ==
    /\ pc = "done"
    /\ earlier' = {result}
    /\ stdSort' = << >>
    /\ pc' = "start"
    /\ mat' = << >>
    /\ matIdxRemap' = << >>
    /\ triangles' = << >>
    /\ vertexMap' = LocalVertexMap(vertexMap)
    /\ result' = EmptyResult
    /\ triPos' = 0
    /\ c' = 0
    /\ oobRead' = FALSE
    /\ UNCHANGED <<mesh_, pureVars, worldVars>>

NextTies ==
    \/ Next
    \/ CallOtherBuild

\* getProcessedMeshData called on one mesh by builds of any tie order.
SpecTies == Init /\ [][NextTies]_vars

(* ------------------- the corner resolution on its own ------------------ *)

\* Largest high word k of a raw feature index.
MaxK == 3

\* Sizes of the feature table: small ones, and sizes around 2^16 and 2^17,
\* which the tables of the packer's inputs cannot reach.
FeatureCounts == {0, 1, 2, 3, 65535, 65536, 65537, 131072}

\* The arguments of one corner resolution: a vertex index inside or one
\* past a table of two positions (or with an empty table), and a raw
\* feature index that is small or is featureCount + (k << 16).
RawCorners ==
    {[vi |-> vi, fi |-> fi, vertexCount |-> vc, featureCount |-> fc] :
        vi \in 0 .. 2, vc \in {0, 2}, fc \in FeatureCounts,
        fi \in {k : k \in 0 .. MaxK} \cup UNION {{fc + k * 65536 : k \in 0 .. MaxK} : fc \in FeatureCounts}}

\* No call of getProcessedMeshData is made.
NoCall ==
    /\ mesh_ = Mesh(<< >>, << >>, << >>, << >>, << >>, << >>)
    /\ Start
    /\ FirstCall

InitResolve ==
    /\ rawCorner \in RawCorners
    /\ resolved = << >>
    /\ NoCall
    /\ NewWorld
    /\ NoMerge
    /\ NoKey

\* Lines 214-228 for the corner at hand.
Resolve ==
    /\ resolved = << >>
    /\ resolved' = ResolveCorner(rawCorner.vi, rawCorner.fi,
                                 rawCorner.vertexCount, rawCorner.featureCount)
    /\ UNCHANGED <<rawCorner, mergeVars, keyVars, packVars, earlier, worldVars>>

NextResolve == Resolve

\* The corner resolution applied to every raw corner.
SpecResolve == InitResolve /\ [][NextResolve]_vars

(* ---------------------- the merge pass on its own --------------------- *)

\* Largest material table of the merge pass taken on its own.
MaxMerge == 4

\* A table of n materials that are told apart by their groups.
NumberedMaterials(n) ==
    [k \in 1 .. n |-> [MatBase EXCEPT !.group = k - 1]]

\* The pairs (i, r), i < r, the merge pass asks the predicate about.
ComparedPairs(n) == {p \in (0 .. n - 1) \X (0 .. n - 1) : p[1] < p[2]}

\* The answers of a similarity predicate that holds of the pairs in rel:
\* any relation, transitive or not.
SimFrom(n, rel) ==
    [p \in (0 .. n - 1) \X (0 .. n - 1) |->
        p \in rel \/ <<p[2], p[1]>> \in rel]

InitMerge ==
    /\ \E n \in 0 .. MaxMerge :
         \E rel \in SUBSET ComparedPairs(n) :
            mergeIn = [materials |-> NumberedMaterials(n), sim |-> SimFrom(n, rel)]
    /\ mergeOut = << >>
    /\ NoCall
    /\ NoCorner
    /\ NoKey
    /\ NewWorld

\* Lines 139-166 for the table and the predicate at hand: the class table,
\* then matIdxRemap and the output materials.
Merge ==
    /\ mergeOut = << >>
    /\ LET m == MergePass(mergeIn.sim, Len(mergeIn.materials))
           r == Compact(mergeIn.materials, m)
       IN  mergeOut' = [mat |-> m, matIdxRemap |-> r.matIdxRemap,
                        materials |-> r.materials]
    /\ UNCHANGED <<mergeIn, resolveVars, keyVars, packVars, earlier, worldVars>>

NextMerge == Merge

\* The merge pass applied to every table and every relation.
SpecMerge == InitMerge /\ [][NextMerge]_vars

(* ------------------------ the composite key on its own ------------------ *)

\* Index values the key is computed of: small ones, one with a high word,
\* and the largest 31-bit value.
KeyIndices == {0, 1, 65536, 2147483647}

\* <<a, b>> comes before <<a2, b2>>, or is the same pair.
PairLeq(p, q) == p[1] < q[1] \/ (p[1] = q[1] /\ p[2] <= q[2])

\* Two <<a, b>> argument pairs of mkUInt64.
KeyInputs ==
    {pq \in (KeyIndices \X KeyIndices) \X (KeyIndices \X KeyIndices) :
        PairLeq(pq[1], pq[2])}

\* Inputs of the key checks: a mesh of one material with full tables and
\* every stream length, next to two argument pairs for mkUInt64.
InitKey ==
    /\ \E t \in 0 .. MaxTri, pattern \in CornerPatterns :
         \E li \in StreamLengths(t) :
           \E lf \in {li, li + 1} :
             mesh_ = Mesh(PositionPool, FeaturePool,
                          Stream(pattern, 1, li), Stream(pattern, 2, lf),
                          [k \in 1 .. t |-> 0], <<MatBase>>)
    /\ Start
    /\ FirstCall
    /\ NoCorner
    /\ NewWorld
    /\ NoMerge
    /\ keyIn \in KeyInputs
    /\ keyOut = << >>

\* Lines 87-89 called on each of the two argument pairs.
MakeKey ==
    /\ keyOut = << >>
    /\ keyOut' = <<mkUInt64(keyIn[1][1], keyIn[1][2]),
                   mkUInt64(keyIn[2][1], keyIn[2][2])>>
    /\ UNCHANGED <<keyIn, resolveVars, mergeVars, packVars, earlier, worldVars>>

NextKey ==
    \/ Next
    \/ MakeKey

\* getProcessedMeshData next to mkUInt64 on arbitrary arguments.
SpecKey == InitKey /\ [][NextKey]_vars

(* ---------------------------- the WorldWrapper ------------------------- *)

\* Largest number of load calls made on one WorldWrapper.
MaxLoads == 2

\* What e.what() of an exception of a failed load may be.
ErrorMessages == {"unexpected end of input", "unsupported world version"}

\* The game versions a caller names; 0 asks loadFromArray to detect it.
GameVersions == {1, 2}

\* The worlds a load may leave behind: a world mesh of no, one or two
\* vertices.
Worlds ==
    {[world_mesh |-> [vertices |-> SubSeq(PositionPool, 1, n)]] :
        n \in 0 .. Len(PositionPool)}

\* create_reader_from_...() followed by world_.load(reader.get() [, version]):
\* the call returns, or it throws a std::exception; either way world_ is
\* left with whatever the load has written into it by then.
WorldLoad(game_version) ==
    {[threw |-> FALSE, what |-> "", world |-> w] : w \in Worlds}
    \cup {[threw |-> TRUE, what |-> m, world |-> w] :
              m \in ErrorMessages, w \in Worlds}

\* Result<bool>(true): the constructor from a value.
ResultOfValue(value) ==
    [data |-> value, error_message |-> "", success |-> TRUE]

\* Result<bool>(const std::string&): the constructor from a message.
ResultOfError(error) ==
    [data |-> FALSE, error_message |-> error, success |-> FALSE]

\* Result<bool>(e.what()): e.what() is a const char*. Of the two
\* constructors, Result(bool&&) takes it by a standard conversion (a
\* non-null pointer converts to true) and Result(const std::string&) by a
\* user-defined one, so overload resolution picks Result(bool&&).
ResultOfWhat(what) == ResultOfValue(TRUE)

\* Mutant of ClearedError: the message of an earlier failure is kept.
ClearedError_Kept(previous) == previous

\* Lines 31, 55 and 69: last_error_.clear().
ClearedError(previous) == ""

\* The body the three load methods share: the try block (clear the error,
\* return Result<bool>(true)) and the catch block (keep e.what(), return
\* Result<bool>(e.what())).
LoadInto(method, version, outcome) ==
    /\ world_' = outcome.world
    /\ IF outcome.threw
       THEN /\ last_error_' = outcome.what
            /\ returned' = ResultOfWhat(outcome.what)
       ELSE /\ last_error_' = ClearedError(last_error_)
            /\ returned' = ResultOfValue(TRUE)
    /\ loads' = Append(loads, [method |-> method, version |-> version,
                               succeeded |-> ~outcome.threw,
                               what |-> outcome.what])
    /\ UNCHANGED <<packVars, pureVars, earlier>>

\* Lines 27-37.
load ==
    /\ Len(loads) < MaxLoads
    /\ \E outcome \in WorldLoad(0) : LoadInto("load", 0, outcome)

\* Lines 42-61: version 0 detects the game version, any other is used.
loadFromArray ==
    /\ Len(loads) < MaxLoads
    /\ \E version \in {0} \cup GameVersions :
         \E outcome \in (IF version = 0 THEN WorldLoad(0) ELSE WorldLoad(version)) :
            LoadInto("loadFromArray", version, outcome)

\* Lines 64-75.
loadWithVersion ==
    /\ Len(loads) < MaxLoads
    /\ \E version \in GameVersions :
         \E outcome \in WorldLoad(version) :
            LoadInto("loadWithVersion", version, outcome)

\* Lines 78-80.
getLastError == last_error_

\* Lines 83-85.
isLoaded == last_error_ # "" \/ Len(world_.world_mesh.vertices) > 0

InitWorld ==
    /\ NewWorld
    /\ NoMerge
    /\ NoKey
    /\ NoCall
    /\ NoCorner

NextWorld ==
    \/ load
    \/ loadFromArray
    \/ loadWithVersion

\* A WorldWrapper and the load calls made on it.
SpecWorld == InitWorld /\ [][NextWorld]_vars

(* ======================= properties of the packer ====================== *)

(* ---- vocabulary of the properties, stated without the packer's code --- *)

\* Number of input triangles: one per entry of the material-index stream.
triangleCount == Len(mid)

\* Two materials agree on every field of the similarity predicate.
SimilarMaterials(a, b) == \A f \in ComparedFields : a[f] = b[f]

\* The lowest index whose material is similar to material i (0-based).
FirstSimilar(i) ==
    CHOOSE j \in Idx(mesh_.materials) :
        /\ SimilarMaterials(mesh_.materials[j + 1], mesh_.materials[i + 1])
        /\ \A k \in Idx(mesh_.materials) :
             SimilarMaterials(mesh_.materials[k + 1], mesh_.materials[i + 1])
                => j <= k

\* The classes of the table, each named by its lowest index.
ClassFirsts == {FirstSimilar(i) : i \in Idx(mesh_.materials)}

\* The deduplicated id material i is expected to get: the rank of its class
\* in order of first appearance.
ExpectedId(i) == Cardinality({j \in ClassFirsts : j < FirstSimilar(i)})

\* The deduplicated id the packer gives material i: its class, remapped.
DedupId(i) == MapGet(matIdxRemap, mat[i + 1])

\* The pair of indices corner k of the streams (0-based) stands for after
\* the legacy correction and the bounds fallback.
ResolvedPair(k) ==
    LET vi  == ibo[k + 1]
        fi0 == feat[k + 1]
        fi  == IF fi0 >= Len(mesh_.features) THEN fi0 \div 65536 ELSE fi0
    IN  IF vi >= Len(mesh_.vertices) \/ fi >= Len(mesh_.features)
        THEN <<0, 0>> ELSE <<vi, fi>>

\* The eight floats of a vertex made of position vi and feature fi, both in
\* range.
RecordOf(vi, fi) ==
    LET v == mesh_.vertices[vi + 1]
        f == mesh_.features[fi + 1]
    IN  <<v.x, v.y, v.z, f.normal.x, f.normal.y, f.normal.z,
          f.texture.x, f.texture.y>>

\* The eight floats of output vertex v.
VertexRecord(v) == SubSeq(result.vertices, 8 * v + 1, 8 * v + 8)

\* Entry k (0-based) of result.indices and of result.materialIds.
IndexAt(k) == result.indices[k + 1]
MaterialIdAt(p) == result.materialIds[p + 1]

\* The stream offsets of the corners the welding loop emits, in the order
\* it emits them, given the sorted triangle list.
RECURSIVE EmittedFrom(_, _)
EmittedFrom(p, k) ==
    IF p >= Len(triangles) THEN << >>
    ELSE IF k > 2 THEN EmittedFrom(p + 1, 0)
    ELSE IF triangles[p + 1].primId + k < Len(ibo)
         THEN <<triangles[p + 1].primId + k>> \o EmittedFrom(p, k + 1)
         ELSE EmittedFrom(p, k + 1)

EmittedCorners == EmittedFrom(0, 0)

\* The input is well formed: both corner streams hold 3 entries per
\* triangle, every index is in range, and there is a material.
WellFormed ==
    /\ Len(ibo) = 3 * triangleCount
    /\ Len(feat) = 3 * triangleCount
    /\ mesh_.materials # << >>
    /\ \A t \in 1 .. Len(mid) : mid[t] < Len(mesh_.materials)
    /\ \A k \in 1 .. Len(ibo) : ibo[k] < Len(mesh_.vertices)
    /\ \A k \in 1 .. Len(feat) : feat[k] < Len(mesh_.features)

\* The one-to-one maps from input triangles to output positions.
Bijections(n) ==
    {s \in [0 .. n - 1 -> 0 .. n - 1] :
        \A a, b \in 0 .. n - 1 : a # b => s[a] # s[b]}

(* ------------------------------- C1 ------------------------------------ *)

\* C1: for a well-formed input the finished result has exactly
\* triangleCount triangles, and the input triangles correspond one-to-one
\* to the output positions so that the output triangle has the expected
\* deduplicated material id of the input triangle and each of its three
\* indices refers to the vertex record made of the position and of the
\* normal/uv stored at the matching input corner.
C1_WellFormedOutput ==
    (pc = "done" /\ WellFormed) =>
        /\ Len(result.materialIds) = triangleCount
        /\ Len(result.indices) = 3 * triangleCount
        /\ Len(result.vertices) % 8 = 0
        /\ \A k \in 1 .. Len(result.indices) :
             8 * result.indices[k] + 8 <= Len(result.vertices)
        /\ \E s \in Bijections(triangleCount) :
             \A t \in 0 .. triangleCount - 1 :
                /\ MaterialIdAt(s[t]) = ExpectedId(mid[t + 1])
                /\ \A k \in 0 .. 2 :
                     VertexRecord(IndexAt(3 * s[t] + k))
                        = RecordOf(ibo[3 * t + k + 1], feat[3 * t + k + 1])

\* A well-formed mesh of two triangles whose order the sort reverses has
\* been packed, and a vertex is shared.
C1_Witness ==
    /\ pc = "done"
    /\ WellFormed
    /\ triangleCount = 2
    /\ ExpectedId(mid[1]) > ExpectedId(mid[2])
    /\ Len(result.vertices) < 8 * Len(result.indices)

(* ------------------------------- C2 ------------------------------------ *)

\* C2: at every point of the welding loop and in the result, two emitted
\* corners whose resolved (position, feature) pairs are equal have the same
\* entry in indices.
C2_SamePairSameIndex ==
    pc \in {"weld", "done"} =>
        /\ Len(result.indices) <= Len(EmittedCorners)
        /\ \A a, b \in 1 .. Len(result.indices) :
             ResolvedPair(EmittedCorners[a]) = ResolvedPair(EmittedCorners[b])
                => result.indices[a] = result.indices[b]

\* Two corners with different raw feature indices that resolve to the same
\* pair have been welded.
C2_Witness ==
    /\ pc = "done"
    /\ \E a, b \in 1 .. Len(result.indices) :
         /\ a # b
         /\ feat[EmittedCorners[a] + 1] # feat[EmittedCorners[b] + 1]
         /\ ResolvedPair(EmittedCorners[a]) = ResolvedPair(EmittedCorners[b])
         /\ ResolvedPair(EmittedCorners[a]) # <<0, 0>>

(* ------------------------------- C3 ------------------------------------ *)

\* C3: no read of the positions, the features, the two corner streams, the
\* material-index stream, the material table or the class table is past the
\* end of its sequence.
C3_NoReadPastEnd == oobRead = FALSE

\* A malformed mesh has been packed: a corner lies past the end of the
\* streams, a vertex index and a feature index are out of range, and a
\* material index is out of range; corners were emitted all the same.
C3_Witness ==
    /\ pc = "done"
    /\ Len(ibo) < 3 * triangleCount
    /\ \E k \in 1 .. Len(ibo) : ibo[k] >= Len(mesh_.vertices)
    /\ \E k \in 1 .. Len(feat) : feat[k] >= Len(mesh_.features)
    /\ \E t \in 1 .. Len(mid) : mid[t] >= Len(mesh_.materials)
    /\ result.indices # << >>

(* ------------------------------- C4 ------------------------------------ *)

\* C4: the deduplicated materials are never more than the input materials,
\* and every material id is an index of the deduplicated list.
C4_MaterialCompaction ==
    /\ Len(result.materials) <= Len(mesh_.materials)
    /\ \A p \in 1 .. Len(result.materialIds) :
         result.materialIds[p] < Len(result.materials)

\* A table with a duplicate has been compacted, and triangles of its last
\* material were emitted.
C4_Witness ==
    /\ pc = "done"
    /\ Len(result.materials) < Len(mesh_.materials)
    /\ \E p \in 1 .. Len(result.materialIds) :
         result.materialIds[p] = Len(result.materials) - 1

(* ------------------------------- C5 ------------------------------------ *)

\* C5: materialIds is non-decreasing, at every point of the welding loop
\* and in the result.
C5_MaterialIdsSorted ==
    \A p \in 1 .. Len(result.materialIds) - 1 :
        result.materialIds[p] <= result.materialIds[p + 1]

\* Triangles collected in decreasing order of material id have been packed.
C5_Witness ==
    /\ pc = "done"
    /\ Len(result.materialIds) >= 2
    /\ result.materialIds[1] < result.materialIds[Len(result.materialIds)]
    /\ \E t \in 1 .. Len(mid) - 1 :
         /\ mid[t] < Len(mesh_.materials)
         /\ mid[t + 1] < Len(mesh_.materials)
         /\ DedupId(mid[t]) > DedupId(mid[t + 1])

(* ------------------------------- C6 ------------------------------------ *)

\* The eight floats expected for a resolved pair: the position and feature
\* it names, or the defaults of an empty table.
PairRecord(pair) ==
    (IF pair[1] < Len(mesh_.vertices)
     THEN LET v == mesh_.vertices[pair[1] + 1] IN <<v.x, v.y, v.z>>
     ELSE <<0, 0, 0>>)
    \o
    (IF pair[2] < Len(mesh_.features)
     THEN LET f == mesh_.features[pair[2] + 1]
          IN  <<f.normal.x, f.normal.y, f.normal.z, f.texture.x, f.texture.y>>
     ELSE <<0, 0, 1, 0, 0>>)

\* C6: in the result, indices holds exactly 3 entries per entry of
\* materialIds, and entries 3p, 3p+1, 3p+2 of indices are the three corners
\* of the triangle whose material id stands at materialIds[p].
C6_IndicesAlignWithMaterialIds ==
    pc = "done" =>
        /\ Len(result.indices) = 3 * Len(result.materialIds)
        /\ Len(result.materialIds) = Len(triangles)
        /\ \A p \in 0 .. Len(result.materialIds) - 1 :
             /\ MaterialIdAt(p) = triangles[p + 1].matId
             /\ \A k \in 0 .. 2 :
                  VertexRecord(IndexAt(3 * p + k))
                     = PairRecord(ResolvedPair(triangles[p + 1].primId + k))

(* ------------------------------- C7 ------------------------------------ *)

\* The deduplication has run: the call did not return early, and the class
\* table and the output materials are built.
Compacted ==
    /\ pc \in {"collect", "sort", "weld", "done"}
    /\ mat # << >>

\* C7: once the materials are compacted, the output list has one entry per
\* class of similar materials, the classes stand in order of their first
\* (lowest) original index, the entry of a class is the record of one of
\* its members, and every original index is mapped to the position of its
\* class: members of one class to the same position, members of different
\* classes to different positions.
C7_OneRepresentativePerClass ==
    Compacted =>
        /\ Len(result.materials) = Cardinality(ClassFirsts)
        /\ \A i \in Idx(mesh_.materials) :
             /\ DedupId(i) = ExpectedId(i)
             /\ DedupId(i) < Len(result.materials)
             /\ \E j \in Idx(mesh_.materials) :
                  /\ SimilarMaterials(mesh_.materials[j + 1], mesh_.materials[i + 1])
                  /\ result.materials[DedupId(i) + 1]
                        = MaterialData(mesh_.materials[j + 1])
        /\ \A i, j \in Idx(mesh_.materials) :
             (FirstSimilar(i) = FirstSimilar(j)) <=> (DedupId(i) = DedupId(j))

\* A table of three materials whose first and last are alike and whose
\* middle one is not has been compacted.
C7_Witness ==
    /\ Compacted
    /\ Len(mesh_.materials) = 3
    /\ SimilarMaterials(mesh_.materials[1], mesh_.materials[3])
    /\ ~SimilarMaterials(mesh_.materials[1], mesh_.materials[2])
    /\ Len(result.materials) = 2

(* ------------------------------- C8 ------------------------------------ *)

\* C8: two different original indices get the same deduplicated id exactly
\* when their materials agree on every field of the similarity predicate.
C8_SameIdIffSimilar ==
    Compacted =>
        \A i, j \in Idx(mesh_.materials) :
            i # j =>
                ((DedupId(i) = DedupId(j))
                    <=> SimilarMaterials(mesh_.materials[i + 1],
                                         mesh_.materials[j + 1]))

\* A table has been compacted in which two materials differ in the last
\* compared field only and two others are alike.
C8_Witness ==
    /\ Compacted
    /\ \E i, j \in Idx(mesh_.materials) :
         /\ i # j
         /\ mesh_.materials[i + 1] = MatBase
         /\ mesh_.materials[j + 1] = Vary("default_mapping_y")
         /\ DedupId(i) # DedupId(j)
    /\ \E i, j \in Idx(mesh_.materials) :
         /\ i # j
         /\ DedupId(i) = DedupId(j)

(* ------------------------------- C9 ------------------------------------ *)

\* Materials a and b differ in field f and in no other field.
DifferOnlyIn(a, b, f) ==
    /\ a[f] # b[f]
    /\ \A g \in MaterialFields \ {f} : a[g] = b[g]

\* Materials i and j are kept apart: different ids, and the output entry of
\* each carries its own name and texture.
KeptApart(i, j) ==
    /\ DedupId(i) # DedupId(j)
    /\ \E p \in 1 .. Len(result.materials) :
         result.materials[p] = MaterialData(mesh_.materials[i + 1])
    /\ \E p \in 1 .. Len(result.materials) :
         result.materials[p] = MaterialData(mesh_.materials[j + 1])

\* C9 as stated: two materials that differ only in the name, or only in the
\* texture, get different ids and both appear in the output list.
C9_NameOrTextureDistinct ==
    Compacted =>
        \A i, j \in Idx(mesh_.materials) :
            (\/ DifferOnlyIn(mesh_.materials[i + 1], mesh_.materials[j + 1], "name")
             \/ DifferOnlyIn(mesh_.materials[i + 1], mesh_.materials[j + 1], "texture"))
                => KeptApart(i, j)

\* C9 amended: two materials that differ only in the texture get different
\* ids, and the output list holds for each an entry with its texture; two
\* materials that differ only in the name get the same id.
C9_TextureDistinctNameMerged ==
    Compacted =>
        \A i, j \in Idx(mesh_.materials) :
            /\ DifferOnlyIn(mesh_.materials[i + 1], mesh_.materials[j + 1], "texture")
                 => /\ DedupId(i) # DedupId(j)
                    /\ result.materials[DedupId(i) + 1].texture
                          = mesh_.materials[i + 1].texture
                    /\ result.materials[DedupId(j) + 1].texture
                          = mesh_.materials[j + 1].texture
            /\ DifferOnlyIn(mesh_.materials[i + 1], mesh_.materials[j + 1], "name")
                 => DedupId(i) = DedupId(j)

\* A table has been compacted that holds a material, one that differs from
\* it in the texture only and one that differs from it in the name only.
C9_Witness ==
    /\ Compacted
    /\ \E i, j, k \in Idx(mesh_.materials) :
         /\ DifferOnlyIn(mesh_.materials[i + 1], mesh_.materials[j + 1], "texture")
         /\ DifferOnlyIn(mesh_.materials[i + 1], mesh_.materials[k + 1], "name")

(* ------------------------------- C10 ----------------------------------- *)

\* C10: a mesh without corner vertex indices or without materials yields
\* the result whose four sequences are empty, by the ordinary return.
C10_EmptyInputEmptyResult ==
    /\ (pc = "done" /\ (ibo = << >> \/ mesh_.materials = << >>))
          => result = EmptyResult
    /\ (pc # "start" /\ (ibo = << >> \/ mesh_.materials = << >>))
          => pc = "done"

\* A mesh with materials and triangles but no corner indices has returned,
\* and so has a mesh with corner indices but no material.
C10_Witness ==
    /\ pc = "done"
    /\ \/ /\ ibo = << >>
          /\ feat = << >>
          /\ mesh_.materials # << >>
          /\ \E t \in 1 .. Len(mid) : mid[t] < Len(mesh_.materials)
       \/ /\ ibo # << >>
          /\ mesh_.materials = << >>

(* ------------------------------- C11 ----------------------------------- *)

\* The input triangles (0-based) whose material index is inside the table.
InRangeTriangles == {t \in Idx(mid) : mid[t + 1] < Len(mesh_.materials)}

\* The corners of the in-range triangles that lie inside the vertex-index
\* stream, as stream offsets.
InRangeCorners ==
    {k \in Idx(ibo) : \E t \in InRangeTriangles : k \in 3 * t .. 3 * t + 2}

\* How many entries of materialIds carry id d, and how many in-range
\* triangles are expected to carry it.
EmittedWithId(d) ==
    Cardinality({p \in 1 .. Len(result.materialIds) : result.materialIds[p] = d})
ExpectedWithId(d) ==
    Cardinality({t \in InRangeTriangles : ExpectedId(mid[t + 1]) = d})

\* The output vertices, as a set of 8-float records.
VertexRecords ==
    {VertexRecord(v) : v \in 0 .. (Len(result.vertices) \div 8) - 1}

\* The call gets past its two early returns: there are corner indices and
\* materials, and the two corner streams are equally long.
Packs ==
    /\ ibo # << >>
    /\ mesh_.materials # << >>
    /\ Len(ibo) = Len(feat)

\* Nothing in the result stems from a triangle whose material index is out
\* of range: every entry of materialIds, every index and every vertex is
\* accounted for by an in-range triangle.
OutOfRangeDropped ==
    /\ \A d \in Idx(mesh_.materials) : EmittedWithId(d) <= ExpectedWithId(d)
    /\ \A p \in 1 .. Len(result.materialIds) :
         result.materialIds[p] \in Idx(mesh_.materials)
    /\ Len(result.indices) <= Cardinality(InRangeCorners)
    /\ \A rec \in VertexRecords :
         \E k \in InRangeCorners : rec = PairRecord(ResolvedPair(k))

\* Every in-range triangle is emitted: one entry of materialIds with its
\* expected id, one index per corner inside the streams, and the vertex of
\* each such corner.
InRangeEmitted ==
    /\ Len(result.materialIds) = Cardinality(InRangeTriangles)
    /\ \A d \in Idx(mesh_.materials) : EmittedWithId(d) = ExpectedWithId(d)
    /\ Len(result.indices) = Cardinality(InRangeCorners)
    /\ \A k \in InRangeCorners : PairRecord(ResolvedPair(k)) \in VertexRecords

\* C11 as stated: in every result, a triangle whose material index is out
\* of range has added nothing, materialIds has one entry per in-range
\* triangle, and every in-range triangle is emitted.
C11_DroppedOthersEmitted ==
    pc = "done" =>
        /\ Len(result.materialIds) = Cardinality(InRangeTriangles)
        /\ OutOfRangeDropped
        /\ InRangeEmitted

\* C11 amended: in every result a triangle whose material index is out of
\* range has added nothing; when the call does not return early (there are
\* corner indices and materials and the corner streams are equally long),
\* materialIds has one entry per in-range triangle and every in-range
\* triangle is emitted.
C11_DroppedOthersEmittedWhenPacked ==
    pc = "done" =>
        /\ OutOfRangeDropped
        /\ Packs => InRangeEmitted

\* A mesh with an in-range and an out-of-range triangle has been packed;
\* a corner of the out-of-range triangle lies inside the streams and
\* resolves to a pair that no emitted corner has.
C11_Witness ==
    /\ pc = "done"
    /\ Packs
    /\ InRangeTriangles # {}
    /\ result.indices # << >>
    /\ \E t \in Idx(mid) \ InRangeTriangles :
         \E k \in 3 * t .. 3 * t + 2 :
            /\ k < Len(ibo)
            /\ PairRecord(ResolvedPair(k)) \notin VertexRecords

(* ------------------------------- C12 ----------------------------------- *)

\* The in-range triangles that have a corner inside the vertex-index
\* stream: the first corner offset 3t lies before its end.
TrianglesInsideStreams == {t \in InRangeTriangles : 3 * t < Len(ibo)}

\* No entry of materialIds stems from a triangle whose three corner offsets
\* all lie past the end of the corner streams.
NoIdBeyondStreams ==
    /\ Len(result.materialIds) <= Cardinality(TrianglesInsideStreams)
    /\ \A d \in Idx(mesh_.materials) :
         EmittedWithId(d)
            <= Cardinality({t \in TrianglesInsideStreams : ExpectedId(mid[t + 1]) = d})

\* No index and no vertex stems from a corner past the end of the corner
\* streams or at an offset of 3 * triangleCount or more.
NoCornerBeyondStreams ==
    LET inside == {k \in Idx(ibo) : k < 3 * triangleCount}
    IN  /\ Len(result.indices) <= Cardinality(inside)
        /\ \A rec \in VertexRecords :
             \E k \in inside : rec = PairRecord(ResolvedPair(k))

\* C12: in every result, a triangle whose corner offsets 3t .. 3t+2 lie
\* past the end of the corner streams has added no entry to materialIds and
\* no index, and no corner at an offset of 3 * triangleCount or more is
\* emitted.
C12_BeyondStreamsNotProduced ==
    pc = "done" => (NoIdBeyondStreams /\ NoCornerBeyondStreams)

(* ------------------------------- C13 ----------------------------------- *)

\* The raw feature index of the corner at hand is featureCount + (k << 16).
LegacyRaw(k) == rawCorner.fi = rawCorner.featureCount + k * 65536

\* The corner at hand has been resolved and its vertex index is in range.
ResolvedInRange ==
    /\ resolved # << >>
    /\ rawCorner.vi < rawCorner.vertexCount

\* C13 as stated: for every featureCount and every k up to MaxK, a corner
\* (with a vertex index in range) whose raw feature index is
\* featureCount + (k << 16) resolves to feature index k, and to the pair
\* (0, 0) if k >= featureCount.
C13_LegacyIndexResolvesToK ==
    ResolvedInRange =>
        \A k \in 0 .. MaxK :
            LegacyRaw(k) =>
                resolved = IF k < rawCorner.featureCount
                           THEN <<rawCorner.vi, k>> ELSE <<0, 0>>

\* C13 amended: the same for every featureCount below 2^16; for a
\* featureCount of 2^16 or more the shift yields k + (featureCount >> 16),
\* and the corner resolves to that index (which is in range).
C13_LegacyIndexResolvesBelow65536 ==
    ResolvedInRange =>
        \A k \in 0 .. MaxK :
            LegacyRaw(k) =>
                resolved = IF rawCorner.featureCount >= 65536
                           THEN <<rawCorner.vi, k + rawCorner.featureCount \div 65536>>
                           ELSE IF k < rawCorner.featureCount
                           THEN <<rawCorner.vi, k>> ELSE <<0, 0>>

\* A corner with a raw feature index of featureCount + (k << 16), k > 0 and
\* k < featureCount, has resolved to k, another with k >= featureCount has
\* fallen back to (0, 0).
C13_Witness ==
    /\ ResolvedInRange
    /\ rawCorner.vi > 0
    /\ \/ \E k \in 1 .. MaxK :
             /\ LegacyRaw(k)
             /\ k < rawCorner.featureCount
             /\ resolved = <<rawCorner.vi, k>>
       \/ \E k \in 1 .. MaxK :
             /\ LegacyRaw(k)
             /\ k >= rawCorner.featureCount
             /\ resolved = <<0, 0>>

(* ------------------------------- C14 ----------------------------------- *)

\* The raw vertex index of corner k of the streams, and its feature index
\* after the legacy correction.
PositionIndex(k) == ibo[k + 1]
CorrectedAttributeIndex(k) ==
    IF feat[k + 1] >= featureCount THEN feat[k + 1] \div 65536 ELSE feat[k + 1]

\* Corner k of the streams is out of bounds after the legacy correction.
OutOfBounds(k) ==
    \/ PositionIndex(k) >= vertexCount
    \/ CorrectedAttributeIndex(k) >= featureCount

\* C14: at every point of the welding loop and in the result, an emitted
\* corner that is out of bounds after the legacy correction refers to the
\* vertex of the pair (0, 0): its record is made of position 0 and feature
\* 0, whichever of its two indices was in range, and it shares its index
\* with every emitted corner whose pair is (0, 0).
C14_BoundsFallback ==
    pc \in {"weld", "done"} =>
        \A a \in 1 .. Len(result.indices) :
            OutOfBounds(EmittedCorners[a]) =>
                /\ VertexRecord(result.indices[a]) = PairRecord(<<0, 0>>)
                /\ \A b \in 1 .. Len(result.indices) :
                     (/\ PositionIndex(EmittedCorners[b]) = 0
                      /\ CorrectedAttributeIndex(EmittedCorners[b]) = 0)
                        => result.indices[b] = result.indices[a]

\* A corner whose vertex index is one past the end of the positions and
\* whose feature index is in range and not 0 has been welded to the vertex
\* of a corner whose raw pair is (0, 0), both tables being non-empty.
C14_Witness ==
    /\ pc = "done"
    /\ vertexCount > 0
    /\ featureCount > 0
    /\ \E a, b \in 1 .. Len(result.indices) :
         /\ PositionIndex(EmittedCorners[a]) = vertexCount
         /\ CorrectedAttributeIndex(EmittedCorners[a]) \in 1 .. featureCount - 1
         /\ PositionIndex(EmittedCorners[b]) = 0
         /\ feat[EmittedCorners[b] + 1] = 0
         /\ result.indices[a] = result.indices[b]
         /\ VertexRecord(result.indices[a]) = RecordOf(0, 0)

(* ------------------------------- C15 ----------------------------------- *)

\* The number of output vertices the indices refer to.
VerticesReferred ==
    Cardinality({result.indices[a] : a \in 1 .. Len(result.indices)})

\* C15: the length of vertices is always a multiple of 8, and at every
\* point of the welding loop and in the result the vertex of an emitted
\* corner whose resolved pair (p, a) is inside both tables holds, in order,
\* positions[p].x/y/z, features[a].normal.x/y/z and features[a].texture.x/y
\* and nothing else: the light of the feature is not among its floats, and
\* vertices holds 8 floats per vertex referred to.
C15_VertexLayout ==
    /\ Len(result.vertices) % 8 = 0
    /\ pc \in {"weld", "done"} =>
         /\ Len(result.vertices) = 8 * VerticesReferred
         /\ \A a \in 1 .. Len(result.indices) :
              LET pair == ResolvedPair(EmittedCorners[a])
                  rec  == VertexRecord(result.indices[a])
              IN  (pair[1] < vertexCount /\ pair[2] < featureCount) =>
                     LET pos  == mesh_.vertices[pair[1] + 1]
                         attr == mesh_.features[pair[2] + 1]
                     IN  /\ rec = <<pos.x, pos.y, pos.z,
                                    attr.normal.x, attr.normal.y, attr.normal.z,
                                    attr.texture.x, attr.texture.y>>
                         /\ \A j \in 1 .. Len(rec) : rec[j] # attr.light

\* Vertices have been made for two pairs inside both tables, one of them of
\* a position and a feature with different indices.
C15_Witness ==
    /\ pc = "done"
    /\ Len(result.vertices) >= 16
    /\ \E a \in 1 .. Len(result.indices) :
         LET pair == ResolvedPair(EmittedCorners[a])
         IN  /\ pair[1] < vertexCount
             /\ pair[2] < featureCount
             /\ pair[1] # pair[2]
             /\ VertexRecord(result.indices[a]) = RecordOf(pair[1], pair[2])

(* ------------------------------- C16 ----------------------------------- *)

\* The eight floats of vertices that start at float offset o (0-based).
FloatsAt(o) == SubSeq(result.vertices, o + 1, o + 8)

\* C16 as stated: at every point of the welding loop and in the result,
\* every entry of indices is the float offset in vertices of an 8-float
\* record, the record of the corner the entry was emitted for; the entry
\* divided by 8 is the index of that record.
C16_IndicesAreFloatOffsets ==
    pc \in {"weld", "done"} =>
        \A a \in 1 .. Len(result.indices) :
            /\ result.indices[a] % 8 = 0
            /\ result.indices[a] + 8 <= Len(result.vertices)
            /\ FloatsAt(result.indices[a])
                  = PairRecord(ResolvedPair(EmittedCorners[a]))

\* C16 amended: every entry of indices is the index of an 8-float vertex
\* record, the record of the corner the entry was emitted for; the entry
\* multiplied by 8 is the float offset of that record in vertices.
C16_IndicesAreVertexIndices ==
    pc \in {"weld", "done"} =>
        \A a \in 1 .. Len(result.indices) :
            /\ 8 * result.indices[a] + 8 <= Len(result.vertices)
            /\ FloatsAt(8 * result.indices[a])
                  = PairRecord(ResolvedPair(EmittedCorners[a]))

\* A corner has been emitted whose index is not 0 and whose record is not
\* the record of index 0.
C16_Witness ==
    /\ pc = "done"
    /\ \E a \in 1 .. Len(result.indices) :
         /\ result.indices[a] > 0
         /\ FloatsAt(8 * result.indices[a]) # FloatsAt(0)
         /\ FloatsAt(8 * result.indices[a])
               = PairRecord(ResolvedPair(EmittedCorners[a]))

(* ------------------------------- C17 ----------------------------------- *)

\* C17: a call that has returned has returned what every earlier call on
\* the same mesh returned: the same vertices, indices, materialIds and
\* materials.
C17_RepeatedCallsAgree ==
    pc = "done" =>
        \A r \in earlier :
            /\ r.vertices = result.vertices
            /\ r.indices = result.indices
            /\ r.materialIds = result.materialIds
            /\ r.materials = result.materials

\* A second call has returned for a mesh of two triangles of one material
\* whose order the sort is free to choose, with a welded vertex, a legacy
\* feature index and a skipped corner.
C17_Witness ==
    /\ pc = "done"
    /\ earlier # {}
    /\ Len(result.materialIds) = 2
    /\ result.materialIds[1] = result.materialIds[2]
    /\ Len(result.vertices) < 8 * Len(result.indices)
    /\ Len(result.indices) < 6
    /\ \E k \in 1 .. Len(feat) : feat[k] >= 65536

(* ------------------------------- C18 ----------------------------------- *)

\* An upper bound of the steps the call still takes: one per stage ahead,
\* and one per corner the welding loop has not visited.
StepsLeft ==
    CASE pc = "start"   -> 5 + 3 * triangleCount
      [] pc = "compact" -> 4 + 3 * triangleCount
      [] pc = "collect" -> 3 + 3 * triangleCount
      [] pc = "sort"    -> 2 + 3 * triangleCount
      [] pc = "weld"    -> 1 + 3 * (Len(triangles) - triPos) - c
      [] pc = "done"    -> 0

\* C18: every call returns, and on its way it reads nothing outside a
\* sequence (the one way the code could fail, as it throws nothing); every
\* step brings the return nearer, so that the call takes at most
\* 5 + 3 * triangleCount steps.
C18_CallReturns ==
    /\ <>(pc = "done" /\ ~oobRead)
    /\ [](StepsLeft >= 0)
    /\ [][StepsLeft' < StepsLeft]_vars

\* The call has returned for a malformed mesh (a corner past the end of the
\* streams, a material index and a vertex index out of range) after the
\* welding loop has visited the corners of a triangle.
C18_Witness ==
    /\ pc = "done"
    /\ ~WellFormed
    /\ Len(ibo) < 3 * triangleCount
    /\ \E t \in 1 .. Len(mid) : mid[t] >= Len(mesh_.materials)
    /\ \E k \in 1 .. Len(ibo) : ibo[k] >= vertexCount
    /\ triPos > 0
    /\ result.indices # << >>

(* ------------------------------- C19 ----------------------------------- *)

\* C19: no step of a call changes the input mesh: positions, features,
\* both corner streams, the material indices and the material table are
\* after the step what they were before it.
C19_MeshUnchanged ==
    [][/\ mesh_'.vertices = mesh_.vertices
       /\ mesh_'.features = mesh_.features
       /\ mesh_'.polygons.vertex_indices = mesh_.polygons.vertex_indices
       /\ mesh_'.polygons.feature_indices = mesh_.polygons.feature_indices
       /\ mesh_'.polygons.material_indices = mesh_.polygons.material_indices
       /\ mesh_'.materials = mesh_.materials]_vars

\* A call has returned that has shifted a feature index, has fallen back
\* to the pair (0, 0) for a corner and has merged two materials.
C19_Witness ==
    /\ pc = "done"
    /\ result.indices # << >>
    /\ \E a \in 1 .. Len(result.indices) :
         /\ feat[EmittedCorners[a] + 1] >= 65536
         /\ ~OutOfBounds(EmittedCorners[a])
    /\ \E a \in 1 .. Len(result.indices) : OutOfBounds(EmittedCorners[a])
    /\ Len(result.materials) < Len(mesh_.materials)

(* ------------------------------- C20 ----------------------------------- *)

\* A load call made so far has succeeded.
SomeLoadSucceeded == \E i \in 1 .. Len(loads) : loads[i].succeeded

\* The last load call failed and the world mesh has no vertices.
LastLoadFailedWithoutVertices ==
    /\ loads # << >>
    /\ ~loads[Len(loads)].succeeded
    /\ Len(world_.world_mesh.vertices) = 0

\* C20: after any sequence of load calls isLoaded is true only if a load
\* has succeeded, and it is false for a new World and after a load that
\* failed and left no mesh vertices.
C20_IsLoadedOnlyAfterSuccess ==
    /\ isLoaded => SomeLoadSucceeded
    /\ loads = << >> => ~isLoaded
    /\ LastLoadFailedWithoutVertices => ~isLoaded

(* ------------------------------- C21 ----------------------------------- *)

\* The merge pass taken on its own has run.
Merged == mergeOut # << >>

\* The indices of the table of the merge pass taken on its own, what the
\* predicate answers for materials i and r, and the class r ends in.
MergeIdx == Idx(mergeIn.materials)
Similar(i, r) == mergeIn.sim[<<i, r>>]
classOf(r) == mergeOut.mat[r + 1]

\* The earlier materials the predicate finds similar to r.
SimilarBefore(r) == {i \in MergeIdx : i < r /\ Similar(i, r)}

\* The highest of a non-empty set of indices.
Highest(S) == CHOOSE i \in S : \A j \in S : j <= i

ClassMembers(r) == {j \in MergeIdx : classOf(j) = classOf(r)}
Representatives == {r \in MergeIdx : classOf(r) = r}
RepresentativesBelow(r) == {j \in Representatives : j < r}

\* C27: after the merge pass, for an arbitrary relation, every class id is
\* a representative at or below its member (classOf[r] <= r and
\* classOf[classOf[r]] = classOf[r]); the record emitted for a class is the
\* input material with the lowest index of the class, and the output list is
\* ordered by increasing representative index.
C27_ClassesAreRepresentatives ==
    Merged =>
        /\ \A r \in MergeIdx :
             /\ classOf(r) <= r
             /\ classOf(classOf(r)) = classOf(r)
             /\ \A j \in ClassMembers(r) : classOf(r) <= j
             /\ classOf(r) \in DOMAIN mergeOut.matIdxRemap
             /\ mergeOut.materials[mergeOut.matIdxRemap[classOf(r)] + 1]
                    = MaterialData(mergeIn.materials[classOf(r) + 1])
        /\ Len(mergeOut.materials) = Cardinality(Representatives)
        /\ \A r \in Representatives :
             mergeOut.matIdxRemap[r] = Cardinality(RepresentativesBelow(r))

\* The pass has run on a relation that chains: a material has joined, through
\* a material that was itself merged, a class whose representative it is not
\* similar to, and another class follows in the output.
C27_Witness ==
    /\ Merged
    /\ \E r, i \in MergeIdx :
         /\ i \in SimilarBefore(r)
         /\ classOf(i) # i
         /\ classOf(r) = classOf(i)
         /\ ~Similar(classOf(i), r)
    /\ \E r \in Representatives : mergeOut.matIdxRemap[r] > 0

(* ------------------------------- C22 ----------------------------------- *)

\* The welding loop stands at a corner whose offset is past the end of the
\* corner streams.
AtCornerPastEnd ==
    /\ pc = "weld"
    /\ triPos < Len(triangles)
    /\ tri.primId + c >= Len(ibo)

\* The corners of the triangle at position p of the sorted list that lie
\* inside the corner streams.
CornersInside(p) == {k \in 0 .. 2 : triangles[p + 1].primId + k < Len(ibo)}

\* The number of corners emitted for the triangles before position p.
RECURSIVE CornersBefore(_)
CornersBefore(p) ==
    IF p = 0 THEN 0 ELSE CornersBefore(p - 1) + Cardinality(CornersInside(p - 1))

EmittedPairs ==
    {ResolvedPair(EmittedCorners[a]) : a \in 1 .. Len(result.indices)}

\* C23: the composite key is injective on pairs of indices, and the cache
\* never merges different pairs: two emitted corners with different resolved
\* pairs have different entries in indices, and the number of output
\* vertices is the number of distinct resolved pairs among the emitted
\* corners.
C23_DifferentPairsDifferentVertices ==
    /\ keyOut # << >> => ((keyOut[1] = keyOut[2]) <=> (keyIn[1] = keyIn[2]))
    /\ pc \in {"weld", "done"} =>
         /\ Len(result.indices) <= Len(EmittedCorners)
         /\ \A a, b \in 1 .. Len(result.indices) :
              ResolvedPair(EmittedCorners[a]) # ResolvedPair(EmittedCorners[b])
                 => result.indices[a] # result.indices[b]
         /\ Len(result.vertices) = 8 * Cardinality(EmittedPairs)

\* The keys of two different argument pairs that use the high word have
\* been computed, and a call has returned that emitted corners of different
\* pairs as well as corners of one pair.
C23_Witness ==
    /\ keyOut # << >>
    /\ keyIn[1] # keyIn[2]
    /\ keyIn[1][2] >= 65536
    /\ keyIn[2][1] >= 65536
    /\ pc = "done"
    /\ Cardinality(EmittedPairs) >= 2
    /\ Cardinality(EmittedPairs) < Len(result.indices)

(* ------------------------------- C24 ----------------------------------- *)

\* C24: with an empty position table every emitted vertex has position
\* (0, 0, 0); with an empty attribute table every emitted vertex has normal
\* (0, 0, 1) and uv (0, 0); in either case every emitted corner resolves to
\* (0, 0), so there is at most one vertex and every entry of indices is 0.
C24_EmptyTableDefaults ==
    pc \in {"weld", "done"} =>
        /\ vertexCount = 0 =>
             \A v \in 0 .. (Len(result.vertices) \div 8) - 1 :
                SubSeq(VertexRecord(v), 1, 3) = <<0, 0, 0>>
        /\ featureCount = 0 =>
             \A v \in 0 .. (Len(result.vertices) \div 8) - 1 :
                SubSeq(VertexRecord(v), 4, 8) = <<0, 0, 1, 0, 0>>
        /\ (vertexCount = 0 \/ featureCount = 0) =>
             /\ \A a \in 1 .. Len(result.indices) :
                  /\ ResolvedPair(EmittedCorners[a]) = <<0, 0>>
                  /\ result.indices[a] = 0
             /\ Len(result.vertices) \in {0, 8}
             /\ result.indices # << >> => Len(result.vertices) = 8

\* A call on a mesh with neither positions nor attributes has returned a
\* whole triangle: one vertex of defaults, and nothing but 0 in indices.
C24_Witness ==
    /\ pc = "done"
    /\ vertexCount = 0
    /\ featureCount = 0
    /\ Len(result.indices) >= 3
    /\ result.vertices = <<0, 0, 0, 0, 0, 1, 0, 0>>

(* ------------------------------- C28 ----------------------------------- *)

\* The number of output vertices, and the values of the first a entries of
\* indices.
vertexTotal == Len(result.vertices) \div 8
IndexValues(a) == {result.indices[b] : b \in 1 .. a}

\* C28: indices is dense and in first-use order: at every point of the
\* welding loop each entry is below vertices.length / 8, a new vertex gets
\* the number of vertices created before it as its index, and at the end
\* the values in indices are exactly 0 .. vertices.length / 8 - 1.
C28_IndicesDenseFirstUse ==
    /\ [][Len(result'.vertices) > Len(result.vertices) =>
            /\ Len(result'.vertices) = Len(result.vertices) + 8
            /\ result'.indices = Append(result.indices, vertexTotal)]_vars
    /\ [](pc \in {"weld", "done"} =>
            /\ Len(result.vertices) = 8 * vertexTotal
            /\ \A a \in 1 .. Len(result.indices) :
                 /\ result.indices[a] < vertexTotal
                 /\ \/ result.indices[a] \in IndexValues(a - 1)
                    \/ result.indices[a] = Cardinality(IndexValues(a - 1))
            /\ IndexValues(Len(result.indices)) = 0 .. vertexTotal - 1)

\* A call has returned whose corners made three vertices or more and used
\* one of them again after a later one was made.
C28_Witness ==
    /\ pc = "done"
    /\ vertexTotal >= 3
    /\ \E a, b \in 1 .. Len(result.indices) :
         /\ a < b
         /\ result.indices[b] < result.indices[a]

(* ------------------------------- C29 ----------------------------------- *)

\* C29: when the two corner streams have different lengths, the result has
\* all four sequences empty: there is no partial output.
C29_LengthMismatchEmptyResult ==
    (pc # "start" /\ Len(ibo) # Len(feat)) =>
        /\ pc = "done"
        /\ result.vertices = << >>
        /\ result.indices = << >>
        /\ result.materialIds = << >>
        /\ result.materials = << >>

\* A call has returned on a mesh with materials, a triangle of a material
\* of the table and a whole triangle of vertex indices, whose attribute
\* stream is of another length.
C29_Witness ==
    /\ pc = "done"
    /\ Len(ibo) # Len(feat)
    /\ Len(ibo) >= 3
    /\ mesh_.materials # << >>
    /\ \E t \in 1 .. Len(mid) : mid[t] < Len(mesh_.materials)

(* ------------------------------- C30 ----------------------------------- *)

\* The vertices of a result, as a set of 8-float records.
RecordsOf(r) ==
    {SubSeq(r.vertices, 8 * v + 1, 8 * v + 8) :
        v \in 0 .. (Len(r.vertices) \div 8) - 1}

\* C30: apart from the order of its entries, the result does not depend on
\* the order the sort gives to triangles of equal material id: any two tie
\* orders yield the same materialIds sequence, the same materials list, as
\* many indices, as many vertices, and the same set of 8-float vertex
\* records.
C30_TieOrderOnlyReorders ==
    pc = "done" =>
        \A r \in earlier :
            /\ r.materialIds = result.materialIds
            /\ r.materials = result.materials
            /\ Len(r.indices) = Len(result.indices)
            /\ Len(r.vertices) = Len(result.vertices)
            /\ RecordsOf(r) = RecordsOf(result)

\* Two builds have packed one mesh with two triangles of one material id
\* in different orders: the vertices of the two results are not in the same
\* order.
C30_Witness ==
    /\ pc = "done"
    /\ Len(result.materialIds) >= 2
    /\ result.materialIds[1] = result.materialIds[2]
    /\ \E r \in earlier :
         /\ r.vertices # result.vertices
         /\ r.indices # result.indices

(* ------------------------------- C25 ----------------------------------- *)

\* The load call made last.
lastLoad == loads[Len(loads)]

\* C25: when the world load throws, load, loadFromArray and loadWithVersion
\* return success false and the exception's message as errorMessage;
\* otherwise they return success true and an empty errorMessage.
C25_ResultReportsFailure ==
    loads # << >> =>
        IF lastLoad.succeeded
        THEN returned.success /\ returned.error_message = ""
        ELSE ~returned.success /\ returned.error_message = lastLoad.what

(* ------------------------------- C26 ----------------------------------- *)

\* C26: getLastError is empty before the first load call and after a call
\* that succeeded, and it is the exception's message after a call that
\* failed; an error of an earlier call never survives a later successful
\* load.
C26_LastErrorOfLastCall ==
    getLastError = IF loads = << >> \/ lastLoad.succeeded
                   THEN ""
                   ELSE lastLoad.what

\* A load has succeeded on a World whose load before had failed, and the
\* error is gone.
C26_Witness ==
    /\ Len(loads) >= 2
    /\ ~loads[Len(loads) - 1].succeeded
    /\ loads[Len(loads) - 1].what # ""
    /\ lastLoad.succeeded
    /\ getLastError = ""

=============================================================================
